---- MODULE Spec2Model ----
(***************************************************************************)
(* The lessons application (src/lessons): access grants, the lesson list   *)
(* and detail views, progress tracking and the staff handlers, as a state  *)
(* machine over the relational store.  One action per request handler;     *)
(* a handler runs as one step (one request at a time), except in           *)
(* SpecConcurrent, where lesson-detail and update_progress requests run    *)
(* side by side, one database statement at a time.                         *)
(*                                                                         *)
(* Store: the VideoLesson, UserAccess and LessonProgress tables.  The      *)
(* write-once timestamps (created_at, granted_at) and the auto_now ones    *)
(* (updated_at, last_watched) are read by no handler and are left out, as  *)
(* are titles, files and categories.  The clock is timezone.now().         *)
(***************************************************************************)
EXTENDS Integers, Sequences, FiniteSets, TLC

\* ---------------------------------------------------------------- bounds
\* the last clock value, and the most rows the UserAccess and VideoLesson
\* tables grow to
MaxClock == 2
MaxGrants == 2
MaxLessons == 2
\* the most requests in flight or finished in SpecConcurrent
MaxRequests == 3

\* null=True columns (UserAccess.lesson, UserAccess.expires_at, granted_by)
NULL == -1

\* ----------------------------------------------------------------- users
StaffUsers == {"admin"}
NonStaffUsers == {"u1"}
Users == StaffUsers \cup NonStaffUsers

is_staff(u) == u \in StaffUsers

\* request.user of a request without a session (AnonymousUser: is_staff is
\* False); the staff handlers are reached by anyone
AnonymousUser == "anon"
Callers == Users \cup {AnonymousUser}

\* ---------------------------------------------------------------- inputs
ExpiryInputs == {NULL, 1}
DurationInputs == {-10, 0, 10}
\* the POST field watched_seconds: <<n>> when int() parses it as n, <<>> when
\* int() raises ValueError
WatchedInputs == {<<-5>>, <<8>>, <<9>>, <<12>>, <<>>}
Methods == {"GET", "POST"}
\* the positions reported by requests that run side by side: below and at
\* 90% of a duration of 10
ReportedInputs == {<<8>>, <<9>>}

\* now, lessons, grants, progress: the clock and the three tables, with
\* LessonProgress held under its unique (user, lesson) index.
\* progress_rows, requests: for requests that run side by side, the
\* LessonProgress table row by row under its primary key, and the requests
\* with their position in the handler and their in-memory LessonProgress
\* instance.
VARIABLES now, lessons, grants, progress, progress_rows, requests

vars == <<now, lessons, grants, progress, progress_rows, requests>>
store == <<lessons, grants, progress>>

\* ------------------------------------------------------------ the tables
\* VideoLesson rows, by primary key 1..Len(lessons)
LessonExists(pk) == pk \in 1 .. Len(lessons)

\* UserAccess rows, by primary key 1..Len(grants)
GrantIdsNow == 1 .. Len(grants)

NewGrant(u, l, approved, by, exp, active) ==
    [user |-> u, lesson |-> l, is_approved |-> approved, granted_by |-> by,
     expires_at |-> exp, is_active |-> active]

\* the primary keys a request can name: every row's, and one that no row has
LessonIds == 1 .. (Len(lessons) + 1)
AccessIds == 1 .. (Len(grants) + 1)

\* LessonProgress rows, keyed by the (user, lesson) pair of unique_together
NewProgress == [watched_seconds |-> 0, is_completed |-> FALSE]

HasProgress(u, l) == <<u, l>> \in DOMAIN progress

\* objects.get_or_create(user=u, lesson=l)
GetOrCreateProgress(P, u, l) ==
    IF <<u, l>> \in DOMAIN P THEN P ELSE P @@ (<<u, l>> :> NewProgress)

\* ------------------------------------------------------ access evaluator
\* UserAccess.is_valid at clock value t
is_valid(g, t) ==
    IF ~g.is_active THEN FALSE
    ELSE IF g.expires_at # NULL /\ t > g.expires_at THEN FALSE
    ELSE TRUE

\* .filter(Q(expires_at__isnull=True) | Q(expires_at__gt=timezone.now()))
NotExpiredFilter(g, t) == g.expires_at = NULL \/ g.expires_at > t

\* has_global without its is_approved=True condition
HasGlobalAt_AnyGrant(G, t, u) ==
    \E i \in 1 .. Len(G) :
        G[i].user = u /\ G[i].is_active /\ NotExpiredFilter(G[i], t)

\* has_global of get_queryset and of dispatch (the same query in both), on
\* the UserAccess table G at clock value t
HasGlobalAt(G, t, u) ==
    \E i \in 1 .. Len(G) :
        /\ G[i].user = u
        /\ G[i].is_approved
        /\ G[i].is_active
        /\ NotExpiredFilter(G[i], t)

\* the rows UserAccess.objects.get(user=u, lesson=l, is_active=True) matches
ActiveAccessRows(G, u, l) ==
    {i \in 1 .. Len(G) : G[i].user = u /\ G[i].lesson = l /\ G[i].is_active}

\* the explicit-access check of dispatch and of update_progress: get(),
\* then is_valid()
ExplicitAccessAt(G, t, u, l) ==
    LET rows == ActiveAccessRows(G, u, l) IN
    IF rows = {} THEN "no_access"
    ELSE IF Cardinality(rows) > 1 THEN "error"
    ELSE IF is_valid(G[CHOOSE i \in rows : TRUE], t) THEN "ok"
    ELSE "expired"

\* LessonDetailView.dispatch for an existing lesson: the access decision
DispatchAt(G, t, u, l) ==
    IF is_staff(u) THEN "ok"
    ELSE IF HasGlobalAt(G, t, u) THEN "ok"
    ELSE ExplicitAccessAt(G, t, u, l)

\* LessonDetailView.dispatch: the outcome of the request for lesson pk
DetailStatus(u, pk) ==
    IF ~LessonExists(pk) THEN "not_found"
    ELSE DispatchAt(grants, now, u, pk)

\* LessonListView.get_queryset
ActiveLessons == {pk \in 1 .. Len(lessons) : lessons[pk].is_active}

valid_access(u) ==
    {grants[i].lesson : i \in {j \in GrantIdsNow :
        /\ grants[j].user = u
        /\ grants[j].is_active
        /\ NotExpiredFilter(grants[j], now)}}

get_queryset(u) ==
    IF is_staff(u) THEN ActiveLessons
    ELSE IF HasGlobalAt(grants, now, u) THEN ActiveLessons
    ELSE {pk \in ActiveLessons : pk \in valid_access(u)}

\* ------------------------------------------------------ progress tracker
\* watched_seconds >= lesson.duration * 0.9, on integers (the float product
\* d * 0.9 compares with an integer w exactly as 9d/10 does)
ReachedThreshold(w, d) == 10 * w >= 9 * d

\* the flag recomputed on every call instead of only ever set
RecordProgress_Recomputed(row, w, d) ==
    [watched_seconds |-> w, is_completed |-> ReachedThreshold(w, d)]

\* the reported position added to the stored one instead of replacing it
RecordProgress_Accumulated(row, w, d) ==
    [watched_seconds |-> row.watched_seconds + w,
     is_completed |-> IF ReachedThreshold(w, d) THEN TRUE ELSE row.is_completed]

\* update_progress, from the row get_or_create returned to the row saved
RecordProgress(row, w, d) ==
    [watched_seconds |-> w,
     is_completed |-> IF ReachedThreshold(w, d) THEN TRUE ELSE row.is_completed]

\* LessonProgress.get_progress_percentage as the exact fraction num/den,
\* den > 0 (the code returns its float)
get_progress_percentage(w, d) ==
    IF d = 0 THEN [num |-> 0, den |-> 1]
    ELSE LET num == IF d > 0 THEN w * 100 ELSE 0 - w * 100
             den == IF d > 0 THEN d ELSE 0 - d
         IN  IF num > 100 * den THEN [num |-> 100, den |-> 1]
             ELSE [num |-> num, den |-> den]

\* update_progress: the outcome of the request
UpdateStatus(u, lesson_id, method, raw) ==
    IF method # "POST" THEN "fail"
    ELSE IF ~LessonExists(lesson_id) THEN "not_found"
    ELSE IF raw = <<>> THEN "error"
    ELSE IF is_staff(u) THEN "ok"
    ELSE LET a == ExplicitAccessAt(grants, now, u, lesson_id) IN
         IF a = "ok" THEN "ok"
         ELSE IF a = "error" THEN "error"
         ELSE "forbidden"

\* --------------------------------------------------------------- actions
\* timezone.now() advances
Tick ==
    /\ now < MaxClock
    /\ now' = now + 1
    /\ UNCHANGED <<lessons, grants, progress, progress_rows, requests>>

\* GET lesson list
LessonList(u) ==
    /\ get_queryset(u) \subseteq ActiveLessons
    /\ UNCHANGED vars

\* GET lesson detail: dispatch, then get_context_data on success
LessonDetail(u, pk) ==
    LET st == DetailStatus(u, pk) IN
    /\ progress' = IF st = "ok" THEN GetOrCreateProgress(progress, u, pk)
                   ELSE progress
    /\ UNCHANGED <<now, lessons, grants, progress_rows, requests>>

\* update_progress: the LessonProgress table after the request
ProgressAfterUpdate(u, lesson_id, method, raw) ==
    IF UpdateStatus(u, lesson_id, method, raw) = "ok"
    THEN LET P == GetOrCreateProgress(progress, u, lesson_id) IN
         [P EXCEPT ![<<u, lesson_id>>] =
             RecordProgress(@, raw[1], lessons[lesson_id].duration)]
    ELSE progress

\* update_progress: the JSON body of the response
UpdateResponse(u, lesson_id, method, raw) ==
    IF UpdateStatus(u, lesson_id, method, raw) = "ok"
    THEN LET row == ProgressAfterUpdate(u, lesson_id, method, raw)[<<u, lesson_id>>] IN
         [success |-> TRUE,
          progress_percentage |->
              get_progress_percentage(row.watched_seconds,
                                      lessons[lesson_id].duration),
          is_completed |-> row.is_completed]
    ELSE [success |-> FALSE]

UpdateProgress(u, lesson_id, method, raw) ==
    /\ progress' = ProgressAfterUpdate(u, lesson_id, method, raw)
    /\ UNCHANGED <<now, lessons, grants, progress_rows, requests>>

\* AdminRequiredMixin.test_func
test_func(u) == is_staff(u)

\* AdminLessonListView: the lessons shown (none when test_func fails)
AdminLessonListShown(u) == IF test_func(u) THEN 1 .. Len(lessons) ELSE {}

\* GET admin lesson list
AdminLessonList(u) ==
    /\ AdminLessonListShown(u) \subseteq 1 .. Len(lessons)
    /\ UNCHANGED vars

\* VideoLessonForm.clean_duration
clean_duration(d) == ~(d # 0 /\ d <= 0)

\* admin_lesson_create, POST
AdminLessonCreate(u, d, active) ==
    LET st == IF ~is_staff(u) THEN "redirect"
              ELSE IF ~clean_duration(d) THEN "invalid"
              ELSE "ok" IN
    /\ st = "ok" => Len(lessons) < MaxLessons
    /\ lessons' = IF st = "ok"
                  THEN Append(lessons, [duration |-> d, is_active |-> active])
                  ELSE lessons
    /\ UNCHANGED <<now, grants, progress, progress_rows, requests>>

\* admin_lesson_edit, POST
AdminLessonEdit(u, pk, d, active) ==
    LET st == IF ~is_staff(u) THEN "redirect"
              ELSE IF ~LessonExists(pk) THEN "not_found"
              ELSE IF ~clean_duration(d) THEN "invalid"
              ELSE "ok" IN
    /\ lessons' = IF st = "ok"
                  THEN [lessons EXCEPT ![pk] = [duration |-> d, is_active |-> active]]
                  ELSE lessons
    /\ UNCHANGED <<now, grants, progress, progress_rows, requests>>

\* the index taking only active rows into account
UniqueViolation_ActiveRowsOnly(G, u, l) ==
    l # NULL /\ \E i \in 1 .. Len(G) :
        G[i].user = u /\ G[i].lesson = l /\ G[i].is_active

\* the unique_together (user, lesson) index of UserAccess: a NULL lesson
\* never collides (SQL compares NULLs as distinct), so only rows with a
\* lesson are constrained
UniqueViolation(G, u, l) ==
    l # NULL /\ \E i \in 1 .. Len(G) : G[i].user = u /\ G[i].lesson = l

\* UserAccessForm: the user choice is limited to non-staff users, and
\* clean_expires_at rejects an expiry that is not in the future
UserAccessFormValid(target, exp) ==
    /\ target \in NonStaffUsers
    /\ ~(exp # NULL /\ exp <= now)

\* manage_user_access, POST
ManageStatus(u, lesson_id, target, exp) ==
    IF ~is_staff(u) THEN "redirect"
    ELSE IF ~LessonExists(lesson_id) THEN "not_found"
    ELSE IF ~UserAccessFormValid(target, exp) THEN "invalid"
    ELSE IF UniqueViolation(grants, target, lesson_id) THEN "error"
    ELSE "ok"

ManageUserAccess(u, lesson_id, target, exp) ==
    LET st == ManageStatus(u, lesson_id, target, exp) IN
    /\ st = "ok" => Len(grants) < MaxGrants
    /\ grants' = IF st = "ok"
                 THEN Append(grants, NewGrant(target, lesson_id, FALSE, u, exp, TRUE))
                 ELSE grants
    /\ UNCHANGED <<now, lessons, progress, progress_rows, requests>>

\* revoke_access: the save is committed before the message is formatted,
\* and formatting reads access.lesson.title
RevokeStatus(u, access_id) ==
    IF ~is_staff(u) THEN "redirect"
    ELSE IF access_id \notin GrantIdsNow THEN "not_found"
    ELSE IF grants[access_id].lesson = NULL THEN "error"
    ELSE "ok"

\* the write of revoke_access without the staff test before it
RevokeWrites_AnyCaller(u, access_id) == access_id \in GrantIdsNow

\* revoke_access: the request writes the row
RevokedRow_ClearsApproved(g) == [g EXCEPT !.is_approved = FALSE]

\* access.is_active = False; access.save()
RevokedRow(g) == [g EXCEPT !.is_active = FALSE]

RevokeWrites(u, access_id) == is_staff(u) /\ access_id \in GrantIdsNow

\* the revocation clearing the approval flag instead of the active flag

RevokeAccess(u, access_id) ==
    /\ grants' = IF RevokeWrites(u, access_id)
                 THEN [grants EXCEPT ![access_id] = RevokedRow(@)]
                 ELSE grants
    /\ UNCHANGED <<now, lessons, progress, progress_rows, requests>>

\* UserAccessAdmin add form (the admin site): every field is on the form,
\* validate_unique runs on (user, lesson) and skips a NULL lesson, and
\* save_model fills granted_by
SiteAddStatus(u, target, l, approved, active, exp) ==
    IF ~is_staff(u) THEN "redirect"
    ELSE IF l # NULL /\ ~LessonExists(l) THEN "invalid"
    ELSE IF UniqueViolation(grants, target, l) THEN "invalid"
    ELSE "ok"

SiteAddAccess(u, target, l, approved, active, exp) ==
    LET st == SiteAddStatus(u, target, l, approved, active, exp) IN
    /\ st = "ok" => Len(grants) < MaxGrants
    /\ grants' = IF st = "ok"
                 THEN Append(grants, NewGrant(target, l, approved, u, exp, active))
                 ELSE grants
    /\ UNCHANGED <<now, lessons, progress, progress_rows, requests>>

\* ------------------------------------------- requests running side by side
\* a LessonProgress row as INSERTed by get_or_create: the field defaults
ProgressRow(u, l) ==
    [user |-> u, lesson |-> l, watched_seconds |-> 0, is_completed |-> FALSE]

\* the primary keys of the rows of table R for the pair (u, l)
RowsOf(R, u, l) == {i \in 1 .. Len(R) : R[i].user = u /\ R[i].lesson = l}

\* the table without its unique index
ProgressUniqueViolation_NoIndex(R, u, l) == FALSE

\* the unique_together (user, lesson) index of LessonProgress: an INSERT
\* for a pair that has a row raises IntegrityError
ProgressUniqueViolation(R, u, l) == RowsOf(R, u, l) # {}

\* a request that passed the handler's checks and is about to run
\* get_or_create: kind is "detail" or "update", w the reported position,
\* pk and obj the in-memory instance once loaded, collided whether its
\* INSERT hit the unique index, saved_at the rank of its save among all
\* saves (0: not saved)
NewRequest(kind, u, l, w) ==
    [kind |-> kind, user |-> u, lesson |-> l, w |-> w, pc |-> "get",
     pk |-> 0, obj |-> NewProgress, collided |-> FALSE, saved_at |-> 0]

RequestIds == 1 .. Len(requests)

\* where a request goes once get_or_create has returned
AfterGetOrCreate(kind) == IF kind = "update" THEN "modify" ELSE "done"

\* the instance built from row i of the table
Loaded(q, i) ==
    [q EXCEPT !.pk = i,
              !.obj = [watched_seconds |-> progress_rows[i].watched_seconds,
                       is_completed |-> progress_rows[i].is_completed],
              !.pc = AfterGetOrCreate(q.kind)]

\* lesson detail: dispatch lets the user through; get_context_data is next
BeginDetail(u, pk) ==
    /\ Len(requests) < MaxRequests
    /\ DetailStatus(u, pk) = "ok"
    /\ requests' = Append(requests, NewRequest("detail", u, pk, 0))
    /\ UNCHANGED <<now, lessons, grants, progress, progress_rows>>

\* update_progress: POST, lesson found, int() parsed, access checked
BeginUpdate(u, lesson_id, raw) ==
    /\ Len(requests) < MaxRequests
    /\ UpdateStatus(u, lesson_id, "POST", raw) = "ok"
    /\ requests' = Append(requests, NewRequest("update", u, lesson_id, raw[1]))
    /\ UNCHANGED <<now, lessons, grants, progress, progress_rows>>

\* get_or_create: the first self.get(user=, lesson=)
GetOrCreateGet(r) ==
    /\ requests[r].pc = "get"
    /\ LET q == requests[r]
           found == RowsOf(progress_rows, q.user, q.lesson)
       IN  requests' = [requests EXCEPT ![r] =
               IF found = {} THEN [q EXCEPT !.pc = "create"]
               ELSE IF Cardinality(found) > 1 THEN [q EXCEPT !.pc = "failed"]
               ELSE Loaded(q, CHOOSE i \in found : TRUE)]
    /\ UNCHANGED <<now, lessons, grants, progress, progress_rows>>

\* get_or_create: self.create(user=, lesson=) after DoesNotExist
GetOrCreateCreate(r) ==
    /\ requests[r].pc = "create"
    /\ LET q == requests[r] IN
       IF ProgressUniqueViolation(progress_rows, q.user, q.lesson)
       THEN /\ requests' = [requests EXCEPT ![r] =
                   [q EXCEPT !.pc = "reget", !.collided = TRUE]]
            /\ UNCHANGED progress_rows
       ELSE /\ progress_rows' = Append(progress_rows, ProgressRow(q.user, q.lesson))
            /\ requests' = [requests EXCEPT ![r] =
                   [q EXCEPT !.pk = Len(progress_rows) + 1,
                             !.obj = NewProgress,
                             !.pc = AfterGetOrCreate(q.kind)]]
    /\ UNCHANGED <<now, lessons, grants, progress>>

\* get_or_create: self.get(user=, lesson=) again after IntegrityError
GetOrCreateReget(r) ==
    /\ requests[r].pc = "reget"
    /\ LET q == requests[r]
           found == RowsOf(progress_rows, q.user, q.lesson)
       IN  requests' = [requests EXCEPT ![r] =
               IF Cardinality(found) # 1 THEN [q EXCEPT !.pc = "failed"]
               ELSE Loaded(q, CHOOSE i \in found : TRUE)]
    /\ UNCHANGED <<now, lessons, grants, progress, progress_rows>>

\* update_progress: the assignments to the in-memory instance
ModifyInstance(r) ==
    /\ requests[r].pc = "modify"
    /\ LET q == requests[r] IN
       requests' = [requests EXCEPT ![r] =
           [q EXCEPT !.obj = RecordProgress(q.obj, q.w, lessons[q.lesson].duration),
                     !.pc = "save"]]
    /\ UNCHANGED <<now, lessons, grants, progress, progress_rows>>

SavesSoFar == Cardinality({r \in RequestIds : requests[r].saved_at > 0})

\* progress.save(): an UPDATE of every field of the row with the
\* instance's primary key
SaveInstance(r) ==
    /\ requests[r].pc = "save"
    /\ LET q == requests[r] IN
       /\ progress_rows' = [progress_rows EXCEPT ![q.pk] =
              [@ EXCEPT !.watched_seconds = q.obj.watched_seconds,
                        !.is_completed = q.obj.is_completed]]
       /\ requests' = [requests EXCEPT ![r] =
              [q EXCEPT !.pc = "done", !.saved_at = SavesSoFar + 1]]
    /\ UNCHANGED <<now, lessons, grants, progress>>

\* ------------------------------------------------------- specifications
\* Grants and access: two lessons exist (the second one active or not), no
\* grant and no progress yet.  Staff grant and revoke; the non-staff user
\* browses and opens lessons while the clock runs.  The admin-site form is
\* submitted with its is_active box as rendered (checked): a grant becomes
\* inactive by revocation.
InitAccess ==
    /\ now = 0
    /\ \E a \in BOOLEAN :
          lessons = <<[duration |-> 10, is_active |-> TRUE],
                      [duration |-> 10, is_active |-> a]>>
    /\ grants = <<>>
    /\ progress = <<>>
    /\ progress_rows = <<>>
    /\ requests = <<>>

NextAccess ==
    \/ Tick
    \/ \E u \in Users : LessonList(u)
    \/ \E u \in NonStaffUsers, pk \in LessonIds : LessonDetail(u, pk)
    \/ \E u \in Users, pk \in LessonIds, t \in Users, e \in ExpiryInputs :
          ManageUserAccess(u, pk, t, e)
    \/ \E u \in Users, id \in AccessIds : RevokeAccess(u, id)
    \/ \E u \in Users, t \in NonStaffUsers,
          l \in (1 .. Len(lessons)) \cup {NULL},
          ap \in BOOLEAN, e \in ExpiryInputs :
          SiteAddAccess(u, t, l, ap, TRUE, e)

SpecAccess == InitAccess /\ [][NextAccess]_vars

\* Progress: one lesson exists, nothing else.  Staff edit the lesson's
\* duration, give the non-staff user a lesson grant or a global one and
\* revoke; both users open the lesson and report playback positions.
InitProgress ==
    /\ now = 0
    /\ lessons = <<[duration |-> 10, is_active |-> TRUE]>>
    /\ grants = <<>>
    /\ progress = <<>>
    /\ progress_rows = <<>>
    /\ requests = <<>>

NextProgress ==
    \/ Tick
    \/ \E u \in Users, pk \in LessonIds : LessonDetail(u, pk)
    \/ \E u \in Users, pk \in LessonIds, m \in Methods, raw \in WatchedInputs :
          UpdateProgress(u, pk, m, raw)
    \/ \E u \in Users, pk \in LessonIds, d \in DurationInputs, a \in BOOLEAN :
          AdminLessonEdit(u, pk, d, a)
    \/ \E u \in Users, pk \in LessonIds, t \in Users, e \in ExpiryInputs :
          ManageUserAccess(u, pk, t, e)
    \/ \E u \in Users, id \in AccessIds : RevokeAccess(u, id)
    \/ \E u \in Users, t \in NonStaffUsers :
          SiteAddAccess(u, t, NULL, TRUE, TRUE, NULL)

SpecProgress == InitProgress /\ [][NextProgress]_vars

\* The staff handlers of views.py, called by staff, by the non-staff user
\* and without a session, all at one clock value: no lesson at first, and
\* either no grant or the one global grant the admin site has given the
\* non-staff user.  Grants are made by manage_user_access only, without
\* an expiry.
InitAdmin ==
    /\ now = 0
    /\ lessons = <<>>
    /\ grants \in {<<>>, <<NewGrant("u1", NULL, TRUE, "admin", NULL, TRUE)>>}
    /\ progress = <<>>
    /\ progress_rows = <<>>
    /\ requests = <<>>

NextAdmin ==
    \/ \E u \in Callers : AdminLessonList(u)
    \/ \E u \in Callers, d \in DurationInputs, a \in BOOLEAN :
          AdminLessonCreate(u, d, a)
    \/ \E u \in Callers, pk \in LessonIds, d \in DurationInputs, a \in BOOLEAN :
          AdminLessonEdit(u, pk, d, a)
    \/ \E u \in Callers, pk \in LessonIds, t \in Users :
          ManageUserAccess(u, pk, t, NULL)
    \/ \E u \in Callers, id \in AccessIds : RevokeAccess(u, id)

SpecAdmin == InitAdmin /\ [][NextAdmin]_vars

\* Granting and revoking through views.py alone while the clock runs: two
\* active lessons, and either no grant or the one global grant the admin
\* site has given the non-staff user.
InitRevocation ==
    /\ now = 0
    /\ lessons = <<[duration |-> 10, is_active |-> TRUE],
                   [duration |-> 10, is_active |-> TRUE]>>
    /\ grants \in {<<>>, <<NewGrant("u1", NULL, TRUE, "admin", NULL, TRUE)>>}
    /\ progress = <<>>
    /\ progress_rows = <<>>
    /\ requests = <<>>

NextRevocation ==
    \/ Tick
    \/ \E u \in Callers, pk \in LessonIds, t \in Users, e \in ExpiryInputs :
          ManageUserAccess(u, pk, t, e)
    \/ \E u \in Callers, id \in AccessIds : RevokeAccess(u, id)

SpecRevocation == InitRevocation /\ [][NextRevocation]_vars

\* Requests side by side: one lesson, and the non-staff user holds a grant
\* for it without expiry.  The user opens the lesson and reports playback
\* positions in up to MaxRequests requests; each request takes one step per
\* database statement, in any order with the steps of the others.
InitConcurrent ==
    /\ now = 0
    /\ lessons = <<[duration |-> 10, is_active |-> TRUE]>>
    /\ grants = <<NewGrant("u1", 1, FALSE, "admin", NULL, TRUE)>>
    /\ progress = <<>>
    /\ progress_rows = <<>>
    /\ requests = <<>>

NextConcurrent ==
    \/ \E u \in NonStaffUsers, pk \in LessonIds : BeginDetail(u, pk)
    \/ \E u \in NonStaffUsers, pk \in LessonIds, raw \in ReportedInputs :
          BeginUpdate(u, pk, raw)
    \/ \E r \in RequestIds : GetOrCreateGet(r)
    \/ \E r \in RequestIds : GetOrCreateCreate(r)
    \/ \E r \in RequestIds : GetOrCreateReget(r)
    \/ \E r \in RequestIds : ModifyInstance(r)
    \/ \E r \in RequestIds : SaveInstance(r)

SpecConcurrent == InitConcurrent /\ [][NextConcurrent]_vars

\* ------------------------------------------------------------ properties
ExistingLessons == 1 .. Len(lessons)

\* validity as the specification words it: active, and no expiry or an
\* expiry strictly after the clock
StatedValid(g, t) == g.is_active /\ (g.expires_at = NULL \/ g.expires_at > t)

GrantsOf(u) == {i \in GrantIdsNow : grants[i].user = u}

\* C1 as stated: the detail check lets U through iff U is staff, or holds
\* a valid grant with a null lesson, or holds a valid grant for L.
C1_AccessIffStaffGlobalOrSpecific ==
    \A u \in Users, l \in ExistingLessons :
        (DetailStatus(u, l) = "ok") <=>
            \/ is_staff(u)
            \/ \E i \in GrantsOf(u) :
                  grants[i].lesson = NULL /\ StatedValid(grants[i], now)
            \/ \E i \in GrantsOf(u) :
                  grants[i].lesson = l /\ StatedValid(grants[i], now)

\* C1 amended: the detail check lets U through iff U is staff, or holds an
\* approved grant (whatever its lesson) that is active and not expired at
\* the clock, or holds an active grant for L whose expiry, if any, the
\* clock has not passed.
C1_AccessIffStaffApprovedOrExplicit ==
    \A u \in Users, l \in ExistingLessons :
        (DetailStatus(u, l) = "ok") <=>
            \/ is_staff(u)
            \/ \E i \in GrantsOf(u) :
                  /\ grants[i].is_approved
                  /\ grants[i].is_active
                  /\ (grants[i].expires_at = NULL \/ grants[i].expires_at > now)
            \/ \E i \in GrantsOf(u) :
                  /\ grants[i].lesson = l
                  /\ grants[i].is_active
                  /\ (grants[i].expires_at = NULL \/ grants[i].expires_at >= now)

\* C1 witness: a non-staff user who never held a grant for lesson l, and
\* holds an unexpired approved grant for another lesson, has opened l.
C1_Witness ==
    \E u \in NonStaffUsers, l \in ExistingLessons :
        /\ HasProgress(u, l)
        /\ \A i \in GrantsOf(u) : grants[i].lesson \notin {l, NULL}
        /\ \E i \in GrantsOf(u) : grants[i].is_approved /\ StatedValid(grants[i], now)

\* C3 as stated: a lesson is listed for U iff it is active and the detail
\* check lets U through at the same clock value.
C3_ListIffActiveAndAccess ==
    \A u \in Users, l \in ExistingLessons :
        (l \in get_queryset(u)) <=>
            (lessons[l].is_active /\ DetailStatus(u, l) = "ok")

\* C4 as stated: is_valid and the query filter both accept a grant iff it
\* is active and has no expiry or an expiry strictly after the clock.
C4_ValidIffActiveAndUnexpired ==
    \A i \in GrantIdsNow :
        /\ is_valid(grants[i], now) <=> StatedValid(grants[i], now)
        /\ (grants[i].is_active /\ NotExpiredFilter(grants[i], now))
               <=> StatedValid(grants[i], now)

\* C6 as stated: at most one grant per (user, lesson) pair, the pair with
\* a null lesson included.
C6_OneGrantPerPair ==
    \A i, j \in GrantIdsNow :
        (i # j) => ~(grants[i].user = grants[j].user
                     /\ grants[i].lesson = grants[j].lesson)

\* C5 as stated: a revocation of the grant of non-staff U for lesson L
\* keeps the row, changes only its active flag, and from then on, while
\* U's grants stay as they are, the detail check refuses U for L at every
\* clock value.
C5_RevokedThenNoAccess ==
    [][\A s \in Users, id \in AccessIds :
          ( /\ grants' # grants
            /\ RevokeAccess(s, id)
            /\ RevokeWrites(s, id)
            /\ grants[id].user \in NonStaffUsers
            /\ grants[id].lesson # NULL )
          => /\ Len(grants') = Len(grants)
             /\ \A f \in {"user", "lesson", "is_approved", "granted_by", "expires_at"} :
                   grants'[id][f] = grants[id][f]
             /\ ~grants'[id].is_active
             /\ \A t \in now .. MaxClock :
                   DispatchAt(grants', t, grants[id].user, grants[id].lesson) # "ok"
      ]_vars

\* C5 amended: the same, except that the detail check can still let U
\* through for L by an approved, active, unexpired grant that U holds
\* besides the revoked one; the revoked grant itself gives no access.
C5_RevokedGrantGivesNoAccess ==
    [][\A s \in Users, id \in AccessIds :
          ( /\ grants' # grants
            /\ RevokeAccess(s, id)
            /\ RevokeWrites(s, id)
            /\ grants[id].user \in NonStaffUsers
            /\ grants[id].lesson # NULL )
          => /\ Len(grants') = Len(grants)
             /\ \A f \in {"user", "lesson", "is_approved", "granted_by", "expires_at"} :
                   grants'[id][f] = grants[id][f]
             /\ ~grants'[id].is_active
             /\ \A t \in now .. MaxClock :
                   (DispatchAt(grants', t, grants[id].user, grants[id].lesson) = "ok")
                       => HasGlobalAt(grants', t, grants[id].user)
      ]_vars

\* C5 witness: a non-staff user's lesson grant has been revoked while its
\* expiry had not passed, and the detail check refuses the user that lesson.
C5_Witness ==
    \E i \in GrantIdsNow :
        /\ grants[i].user \in NonStaffUsers
        /\ grants[i].lesson \in ExistingLessons
        /\ ~grants[i].is_active
        /\ (grants[i].expires_at = NULL \/ grants[i].expires_at > now)
        /\ DetailStatus(grants[i].user, grants[i].lesson) = "no_access"

\* C2 as stated: update_progress accepts a POST iff the detail check lets
\* the user through for that lesson (staff always).
C2_UpdateIffCanAccess ==
    \A u \in Users, l \in ExistingLessons, raw \in WatchedInputs \ {<<>>} :
        (UpdateStatus(u, l, "POST", raw) = "ok") <=> (DetailStatus(u, l) = "ok")

\* C7: a successful update_progress stores the reported value and sets
\* completed to (previous completed) or (10 w >= 9 d), previous completed
\* being false for a fresh row; 540 of 600 completes a fresh row, 100 of
\* 600 does not.
C7_StoresValueAndKeepsCompleted ==
    /\ RecordProgress(NewProgress, 540, 600).is_completed
    /\ ~RecordProgress(NewProgress, 100, 600).is_completed
    /\ [][\A u \in Users, l \in LessonIds, raw \in WatchedInputs :
             ( /\ progress' # progress
               /\ UpdateProgress(u, l, "POST", raw)
               /\ UpdateStatus(u, l, "POST", raw) = "ok" )
             => LET prev == IF HasProgress(u, l)
                            THEN progress[<<u, l>>].is_completed ELSE FALSE
                    after == progress'[<<u, l>>]
                IN  /\ after.watched_seconds = raw[1]
                    /\ after.is_completed =
                          (prev \/ 10 * raw[1] >= 9 * lessons[l].duration)
         ]_vars

\* C7 witness: a row is completed although its stored value is below 90%
\* of the lesson's duration: a later, smaller report did not reset it.
C7_Witness ==
    \E p \in DOMAIN progress :
        /\ progress[p].is_completed
        /\ progress[p].watched_seconds = 8
        /\ lessons[p[2]].duration = 10

\* C8 as stated: the percentage of every stored row is min(100, w/d*100)
\* for d > 0 and 0 for d = 0, and lies within [0, 100].
C8_PercentageWithinBounds ==
    \A p \in DOMAIN progress :
        LET w == progress[p].watched_seconds
            d == lessons[p[2]].duration
            pct == get_progress_percentage(w, d)
        IN  /\ 0 <= pct.num
            /\ pct.num <= 100 * pct.den
            /\ d = 0 => pct.num = 0
            /\ d > 0 => \/ pct.num * d = w * 100 * pct.den
                        \/ (pct.num = 100 * pct.den /\ w * 100 >= 100 * d)

\* C9: right after a successful update_progress, the same request again
\* is accepted, leaves the stored rows as they are and answers with the
\* same percentage and completed flag.
C9_RepeatedUpdateChangesNothing ==
    [][\A u \in Users, l \in LessonIds, raw \in WatchedInputs :
          ( /\ progress' # progress
            /\ UpdateProgress(u, l, "POST", raw)
            /\ UpdateStatus(u, l, "POST", raw) = "ok" )
          => /\ UpdateStatus(u, l, "POST", raw)' = "ok"
             /\ ProgressAfterUpdate(u, l, "POST", raw)' = progress'
             /\ UpdateResponse(u, l, "POST", raw)' = UpdateResponse(u, l, "POST", raw)
      ]_vars

\* C9 witness: a reported position at the threshold has been stored.
C9_Witness ==
    \E p \in DOMAIN progress :
        /\ progress[p].watched_seconds = 9
        /\ progress[p].is_completed
        /\ p[1] \in NonStaffUsers

\* C10 as stated: a request that ends in a denial or an error leaves the
\* store as it was.
C10_FailureLeavesStoreUnchanged ==
    [][/\ \A u \in Users, l \in LessonIds, m \in Methods, raw \in WatchedInputs :
             (UpdateProgress(u, l, m, raw) /\ UpdateStatus(u, l, m, raw) # "ok")
                 => UNCHANGED store
       /\ \A u \in Users, l \in LessonIds :
             (LessonDetail(u, l) /\ DetailStatus(u, l) # "ok") => UNCHANGED store
       /\ \A u \in Users, l \in LessonIds, t \in Users, e \in ExpiryInputs :
             (ManageUserAccess(u, l, t, e) /\ ManageStatus(u, l, t, e) # "ok")
                 => UNCHANGED store
       /\ \A u \in Users, id \in AccessIds :
             (RevokeAccess(u, id) /\ RevokeStatus(u, id) # "ok") => UNCHANGED store
      ]_vars

\* C11: a step that creates or edits a lesson, or creates a grant or changes
\* a grant's active flag, is a request by a staff caller and is no request
\* of the five staff handlers by a caller who is not staff.
C11_OnlyStaffChangeLessonsAndGrants ==
    [][(lessons' # lessons \/ grants' # grants) =>
          /\ \A u \in Callers \ StaffUsers :
                /\ ~AdminLessonList(u)
                /\ \A d \in DurationInputs, a \in BOOLEAN :
                      ~AdminLessonCreate(u, d, a)
                /\ \A pk \in LessonIds, d \in DurationInputs, a \in BOOLEAN :
                      ~AdminLessonEdit(u, pk, d, a)
                /\ \A pk \in LessonIds, t \in Users, e \in ExpiryInputs :
                      ~ManageUserAccess(u, pk, t, e)
                /\ \A id \in AccessIds : ~RevokeAccess(u, id)
          /\ \E u \in StaffUsers :
                \/ \E d \in DurationInputs, a \in BOOLEAN :
                      AdminLessonCreate(u, d, a)
                \/ \E pk \in LessonIds, d \in DurationInputs, a \in BOOLEAN :
                      AdminLessonEdit(u, pk, d, a)
                \/ \E pk \in LessonIds, t \in Users, e \in ExpiryInputs :
                      ManageUserAccess(u, pk, t, e)
                \/ \E id \in AccessIds : RevokeAccess(u, id)
      ]_vars

\* C11 witness: lessons exist, one of them edited to be inactive, and the
\* non-staff user holds an active grant and a revoked one: every staff
\* handler has written, and each of them, asked by the non-staff user now,
\* turns the request away.
C11_Witness ==
    /\ \E pk \in ExistingLessons : ~lessons[pk].is_active
    /\ \E i, j \in GrantIdsNow :
          /\ grants[i].is_active /\ ~grants[j].is_active
          /\ RevokeStatus("u1", i) = "redirect"
          /\ ~RevokeWrites("u1", i)
    /\ \A pk \in ExistingLessons : ManageStatus("u1", pk, "u1", NULL) = "redirect"
    /\ AdminLessonListShown("u1") = {}

SamePair(g, h) == g.user = h.user /\ g.lesson = h.lesson

\* C14: while only manage_user_access and revoke_access act, a pair with a
\* revoked grant has no grant that is_valid accepts, a revoked grant stays
\* revoked, and no request adds a valid grant for its pair or makes one of
\* the pair's grants valid.
C14_RevocationIsPermanent ==
    /\ [](\A i, j \in GrantIdsNow :
            (~grants[i].is_active /\ SamePair(grants[i], grants[j]))
                => ~is_valid(grants[j], now))
    /\ [][\A i \in GrantIdsNow :
             (grants' # grants /\ ~grants[i].is_active) =>
                /\ i \in 1 .. Len(grants')
                /\ SamePair(grants'[i], grants[i])
                /\ ~grants'[i].is_active
                /\ \A j \in 1 .. Len(grants') :
                      (SamePair(grants'[j], grants[i]) /\ is_valid(grants'[j], now'))
                          => (j \in GrantIdsNow /\ is_valid(grants[j], now))
         ]_vars

\* C14 witness: a lesson grant is revoked before its expiry, the table has
\* room for another row, and manage_user_access for the same user and
\* lesson fails on the unique index.
C14_Witness ==
    \E i \in GrantIdsNow :
        /\ ~grants[i].is_active
        /\ grants[i].lesson \in ExistingLessons
        /\ (grants[i].expires_at = NULL \/ grants[i].expires_at > now)
        /\ Len(grants) < MaxGrants
        /\ ManageStatus("admin", grants[i].lesson, grants[i].user, NULL) = "error"

Finished(r) == requests[r].pc \in {"done", "failed"}

\* C12: whatever the order of the steps of lesson-detail and update_progress
\* requests by one user for one lesson, the pair never has more than one
\* LessonProgress row, and once every request has finished the row holds
\* the position reported by the update that saved last.
C12_OneRowAndLastSaveWins ==
    /\ \A u \in Users, l \in ExistingLessons :
          Cardinality(RowsOf(progress_rows, u, l)) <= 1
    /\ (\A r \in RequestIds : Finished(r)) =>
          \A r \in RequestIds :
              (requests[r].saved_at > 0 /\ requests[r].saved_at = SavesSoFar) =>
                  \A i \in RowsOf(progress_rows, requests[r].user, requests[r].lesson) :
                      progress_rows[i].watched_seconds = requests[r].w

\* C12 witness: every request has finished, one of them after its INSERT
\* hit the unique index, and two updates with different positions have
\* both saved; the position stored is that of the later save, the other
\* one is gone.
C12_Witness ==
    /\ \A r \in RequestIds : requests[r].pc = "done"
    /\ \E r \in RequestIds : requests[r].collided
    /\ \E r1, r2 \in RequestIds :
          /\ requests[r1].saved_at > 0
          /\ requests[r2].saved_at > requests[r1].saved_at
          /\ requests[r2].saved_at = SavesSoFar
          /\ requests[r1].w # requests[r2].w
          /\ Len(progress_rows) = 1
          /\ progress_rows[1].watched_seconds = requests[r2].w

\* C13 as stated: with update_progress requests taking their read, modify
\* and save steps in any order, no step changes a stored completed flag
\* from true to false, and while a finished request has reported at least
\* 90% of the duration the row is completed.
C13_CompletedNeverReset ==
    /\ [](\A r \in RequestIds :
            ( /\ requests[r].kind = "update"
              /\ requests[r].pc = "done"
              /\ ReachedThreshold(requests[r].w, lessons[requests[r].lesson].duration) )
            => \A i \in RowsOf(progress_rows, requests[r].user, requests[r].lesson) :
                  progress_rows[i].is_completed)
    /\ [][\A i \in 1 .. Len(progress_rows) :
             progress_rows[i].is_completed => progress_rows'[i].is_completed]_vars

====
